---- MODULE Spec2Model ----
(***************************************************************************)
(* Teleoperation of a Cozmo robot: the two motion mappers                  *)
(* (translate_speed of Scripts/rc-wireless-opencv.py, _get_motor_thrust of *)
(* test-connection.py) and the control loops that call the robot client.   *)
(*                                                                         *)
(* Numbers.  The program computes with floats; the model computes with     *)
(* exact fixed-point integers:                                             *)
(*   - a joystick axis value v is the integer v * AxisScale;               *)
(*   - a wheel speed s (mm/s) is the integer s * 2 * AxisScale, so that    *)
(*     turn*max_wheel_speed/2 stays an integer;                            *)
(*   - a steering angle a (degrees) is the integer a * AngleScale;         *)
(*   - a throttle is an integer percentage;                                *)
(*   - a thrust p (percent) is the integer p * 45 * AngleScale, so that    *)
(*     the division by 45.0 of v_a stays an integer.                       *)
(***************************************************************************)
EXTENDS Integers, Sequences, FiniteSets, TLC

\* ---------------------------------------------------------------- bounds
AxisScale == 20        \* axis values are multiples of 1/AxisScale
AngleScale == 2        \* steering angles are multiples of 1/AngleScale degree
MaxTheta == 400        \* steering angles range over -MaxTheta..MaxTheta degrees
ThrottleMargin == 3    \* throttles range over -ThrottleMargin..100+ThrottleMargin
ThrottleStride == 5    \* ... every ThrottleStride-th value away from the ends
MaxEvents == 2         \* events returned by one pygame.event.get()
NumButtons == 9        \* joystick buttons 0..NumButtons-1
NumAxes == 5           \* joystick axes 0..NumAxes-1
ExprFrames == 2        \* face images displayed by one expression playback
MaxKeys == 2           \* keys read by the keyboard loop after its start
MaxArgs == 2           \* command-line arguments after the program name

\* ------------------------------------------------------------- constants
max_wheel_speed == 150
max_head_speed == 3
max_lift_speed == 5
\* The deadbands 0.1, 0.05, 0.05 as their reciprocals: |v| < 1/n.
wheel_deadband_inv == 10
head_deadband_inv == 20
lift_deadband_inv == 20
\* test-connection.py; the pycozmo values are those of pycozmo/robot.py:
\* MAX_WHEEL_SPEED 200 mm/s, TRACK_WIDTH 45 mm, head angles -25..44.5 degrees,
\* lift heights 32..92 mm.
LIN_INC == 20
ANG_INC_DEG == 20
HEAD_INC_DEG == 2
LIFT_INC == 5
MAX_WHEEL_SPEED == 200
TRACK_WIDTH == 45
MIN_LIFT_HEIGHT == 32
MAX_LIFT_HEIGHT == 92
\* Head angles are counted in twentieths of a degree (the radians of the
\* program are the same numbers times pi/3600).
MIN_HEAD_ANGLE == -25 * 20
MAX_HEAD_ANGLE == 89 * 10
HEAD_INC == HEAD_INC_DEG * 20
\* pi, for the comparisons of angular velocities, as the fraction 355/113.
PiNum == 355
PiDen == 113

None == "None"

Min2(a, b) == IF a <= b THEN a ELSE b
Max2(a, b) == IF a >= b THEN a ELSE b
Abs(a) == IF a < 0 THEN -a ELSE a

\* One wheel-speed unit is 1/SpeedUnit mm/s.
SpeedUnit == 2 * AxisScale
\* One thrust unit is 1/ThrustUnit percent.
ThrustUnit == 45 * AngleScale

VARIABLES
    in_fwd, in_turn,   \* arguments of the translate_speed call under test
    wheels,            \* its return value <<left, right>>, None before the call
    in_r, in_theta,    \* arguments of the _get_motor_thrust call under test
    local_theta,       \* the local theta after line 307, None before the call
    thrust,            \* its return value <<left, right>>, None before the call
    \* main() of Scripts/rc-wireless-opencv.py
    pc,                \* position of main
    run_cozmo,         \* the argument of main
    cli,               \* None, or "Client" once the client object exists
    connected,         \* cli.connect() has returned and cli.disconnect() has not run
    done,
    forward_speed, turn_speed, head_speed, lift_speed,   \* axis units
    expression, make_sound,
    nevents,           \* events handled so far in this frame
    frame,             \* face images displayed so far in this playback
    raised,            \* an exception is propagating out of the try block
    calls,             \* client calls since the last loop test, oldest first
    last_event,        \* the event handled last in this frame, None outside lines 183-220
            \* <<value>> of the last event of axis 0 and of axis 1, None before
    \* the keyboard teleoperation block of test-connection.py
    kpc,               \* position of the block
    LIN_VELOCITY,      \* mm/s
    ANG_VELOCITY,      \* <<c, k>>: c * MAX_WHEEL_SPEED/TRACK_WIDTH + k * ANG_INC rad/s
    HEAD_TILT,         \* head-angle units
    LIFT_HEIGHT,       \* mm
    HEAD_LIGHT,
    key,               \* the key of this iteration, None between iterations
    keys,              \* keys read so far
    kcalls,            \* client calls of this iteration (of the setup before the loop)
    cleanup,           \* client calls of the finally block, oldest first
    kconnected,        \* inside "with pycozmo.connect() as cli"
    kraised,           \* an exception is propagating
    \* the __main__ block of Scripts/rc-wireless-opencv.py
    apc,               \* position of the block
    argv,              \* sys.argv, the program name first
    arg_run_cozmo, use_debug, print_help,   \* the module's run_cozmo, use_debug, print_help
    main_args,         \* <<run_cozmo, use_debug>> main was called with, None if not called
    \* RCApp of test-connection.py
    speed, steering,   \* self.speed, self.steering in units of 1/32768
    speed_left, speed_right,   \* self.speed_left, self.speed_right in units of 1/255
    lift,              \* self.lift
    pad_event,         \* the event _handle_input was called with last, None before
    pcalls,            \* the calls that _handle_input made, oldest first
    in_state,          \* argument state of the stop_all call under test
    robot_event        \* the event the robot reported last: <<event, state>>

arcadeVars == <<in_fwd, in_turn, wheels>>
thrustVars == <<in_r, in_theta, local_theta, thrust>>
inputVars == <<forward_speed, turn_speed, head_speed, lift_speed>>
ghostVars == <<last_event>>
mainVars == <<pc, run_cozmo, cli, connected, done, inputVars, expression,
              make_sound, nevents, frame, raised, calls, ghostVars>>
setVars == <<LIN_VELOCITY, ANG_VELOCITY, HEAD_TILT, LIFT_HEIGHT, HEAD_LIGHT>>
kbdVars == <<kpc, setVars, key, keys, kcalls, cleanup, kconnected, kraised>>
argVars == <<apc, argv, arg_run_cozmo, use_debug, print_help, main_args>>
appVars == <<speed, steering, speed_left, speed_right, lift>>
padVars == <<appVars, pad_event, pcalls>>
stopVars == <<in_state>>
robotVars == <<robot_event>>
vars == <<arcadeVars, thrustVars, mainVars, kbdVars, argVars, padVars,
          stopVars, robotVars>>
\* What each part of the model leaves alone.
notArcadeVars ==
    <<thrustVars, mainVars, kbdVars, argVars, padVars,
      stopVars, robotVars>>
notThrustVars ==
    <<arcadeVars, mainVars, kbdVars, argVars, padVars,
      stopVars, robotVars>>
notMainVars ==
    <<arcadeVars, thrustVars, kbdVars, argVars, padVars,
      stopVars, robotVars>>
notKbdVars ==
    <<arcadeVars, thrustVars, mainVars, argVars, padVars,
      stopVars, robotVars>>
notArgVars ==
    <<arcadeVars, thrustVars, mainVars, kbdVars, padVars,
      stopVars, robotVars>>
notPadVars ==
    <<arcadeVars, thrustVars, mainVars, kbdVars, argVars,
      stopVars, robotVars>>

\* ------------------------------------------- translate_speed (arcade drive)
\* The blended branch alone, without the three special cases.
translate_speed_blend_only(fwd, turn) ==
    <<fwd * max_wheel_speed * 2 + turn * max_wheel_speed,
      fwd * max_wheel_speed * 2 - turn * max_wheel_speed>>

\* The blended branch without the division by 2.
translate_speed_no_half(fwd, turn) ==
    IF fwd = 0 /\ turn = 0 THEN <<0, 0>>
    ELSE IF fwd = 0 THEN <<turn * max_wheel_speed * 2, -turn * max_wheel_speed * 2>>
    ELSE IF turn = 0 THEN <<fwd * max_wheel_speed * 2, fwd * max_wheel_speed * 2>>
    ELSE <<fwd * max_wheel_speed * 2 + turn * max_wheel_speed * 2,
           fwd * max_wheel_speed * 2 - turn * max_wheel_speed * 2>>

\* fwd, turn in axis units; the result in wheel-speed units (x * 2 carries the
\* axis unit to the speed unit, turn*max_wheel_speed/2 is turn*max_wheel_speed).
translate_speed(fwd, turn) ==
    IF fwd = 0 /\ turn = 0 THEN <<0, 0>>
    ELSE IF fwd = 0 THEN <<turn * max_wheel_speed * 2, -turn * max_wheel_speed * 2>>
    ELSE IF turn = 0 THEN <<fwd * max_wheel_speed * 2, fwd * max_wheel_speed * 2>>
    ELSE LET avg_speed == fwd * max_wheel_speed * 2
             local_turn_speed == turn * max_wheel_speed
         IN  <<avg_speed + local_turn_speed, avg_speed - local_turn_speed>>

\* --------------------------------------- _get_motor_thrust (throttle/steer)
\* Normalisation that maps the angle into (-180, 180] instead of [-180, 180).
normalize_theta_upper_closed(theta) ==
    180 * AngleScale - ((180 * AngleScale - theta) % (360 * AngleScale))

\* No normalisation at all.
normalize_theta_identity(theta) == theta

\* theta = ((theta + 180.0) % 360.0) - 180.0; Python's % takes the sign of the
\* divisor, as TLA+'s does.
normalize_theta(theta) ==
    ((theta + 180 * AngleScale) % (360 * AngleScale)) - 180 * AngleScale

\* The clamp without its upper end.
clamp_r_no_upper(r) == Max2(0, r)

\* The clamp without its lower end.
clamp_r_no_lower(r) == Min2(r, 100)

\* r = min(max(0.0, r), 100.0)
clamp_r(r) == Min2(Max2(0, r), 100)

\* The quadrant selection with theta <= 0 where the code has theta < 0.
select_quadrant_le(theta, v_a, v_b) ==
    IF theta < -90 * AngleScale THEN <<-v_b, -v_a>>
    ELSE IF theta <= 0 THEN <<-v_a, v_b>>
    ELSE IF theta < 90 * AngleScale THEN <<v_b, v_a>>
    ELSE <<v_a, -v_b>>

\* The quadrant selection with theta <= 90 where the code has theta < 90.
select_quadrant_le_90(theta, v_a, v_b) ==
    IF theta < -90 * AngleScale THEN <<-v_b, -v_a>>
    ELSE IF theta < 0 THEN <<-v_a, v_b>>
    ELSE IF theta <= 90 * AngleScale THEN <<v_b, v_a>>
    ELSE <<v_a, -v_b>>

\* Lines 312-319: theta is the normalised angle.
select_quadrant(theta, v_a, v_b) ==
    IF theta < -90 * AngleScale THEN <<-v_b, -v_a>>
    ELSE IF theta < 0 THEN <<-v_a, v_b>>
    ELSE IF theta < 90 * AngleScale THEN <<v_b, v_a>>
    ELSE <<v_a, -v_b>>

\* r in percent, theta in angle units; the result in thrust units.
\* v_a = r * (45.0 - theta % 90.0) / 45.0 is, in thrust units,
\* r * (45*AngleScale - theta_units % (90*AngleScale)).
_get_motor_thrust(r, theta) ==
    LET theta1 == normalize_theta(theta)
        r1 == clamp_r(r)
        v_a == r1 * (45 * AngleScale - (theta1 % (90 * AngleScale)))
        v_b == Min2(100 * ThrustUnit,
                    Min2(2 * r1 * ThrustUnit + v_a, 2 * r1 * ThrustUnit - v_a))
    IN  select_quadrant(theta1, v_a, v_b)

\* ------------------------------------------------ the mappers under test
AxisValues == (-AxisScale)..AxisScale
Thetas == (-MaxTheta * AngleScale)..(MaxTheta * AngleScale)
Throttles ==
    {r \in (-ThrottleMargin)..(100 + ThrottleMargin) :
        \/ r % ThrottleStride = 0
        \/ r <= ThrottleMargin
        \/ r >= 100 - ThrottleMargin}

\* No event has been handled since the last frame began.
NoEvent == <<"none">>
\* _handle_input has not been called yet.
NoPadEvent == <<"none", "none", 0>>

IdleArcade == in_fwd = 0 /\ in_turn = 0 /\ wheels = None
IdleThrust == in_r = 0 /\ in_theta = 0 /\ local_theta = None /\ thrust = None
IdleMain ==
    /\ pc = "idle" /\ run_cozmo = FALSE /\ cli = None /\ connected = FALSE
    /\ done = FALSE /\ forward_speed = 0 /\ turn_speed = 0 /\ head_speed = 0
    /\ lift_speed = 0 /\ expression = -1 /\ make_sound = FALSE /\ nevents = 0
    /\ frame = 0 /\ raised = FALSE /\ calls = <<>>
    /\ last_event = NoEvent
IdleKbd ==
    /\ kpc = "idle" /\ LIN_VELOCITY = 0 /\ ANG_VELOCITY = <<0, 0>>
    /\ HEAD_TILT = 0 /\ LIFT_HEIGHT = 0 /\ HEAD_LIGHT = FALSE /\ key = None
    /\ keys = 0 /\ kcalls = <<>> /\ cleanup = <<>> /\ kconnected = FALSE
    /\ kraised = FALSE

IdleArgs ==
    /\ apc = "idle" /\ argv = <<>> /\ arg_run_cozmo = TRUE /\ use_debug = FALSE
    /\ print_help = FALSE /\ main_args = None
\* The robot has reported no event yet.
NoReport == <<"none", FALSE>>
IdleRobot == robot_event = NoReport
IdleStop == in_state = FALSE
IdlePad ==
    /\ speed = 0 /\ steering = 0 /\ speed_left = 0 /\ speed_right = 0
    /\ lift = TRUE /\ pad_event = NoPadEvent /\ pcalls = <<>>

InitArcade ==
    /\ in_fwd \in AxisValues
    /\ in_turn \in AxisValues
    /\ wheels = None
    /\ IdleThrust
    /\ IdleMain
    /\ IdleKbd
    /\ IdleArgs
    /\ IdlePad
    /\ IdleRobot
    /\ IdleStop

CallTranslateSpeed ==
    /\ wheels = None
    /\ wheels' = translate_speed(in_fwd, in_turn)
    /\ UNCHANGED <<in_fwd, in_turn, notArcadeVars>>

NextArcade == CallTranslateSpeed

SpecArcade == InitArcade /\ [][NextArcade]_vars

InitThrust ==
    /\ in_r \in Throttles
    /\ in_theta \in Thetas
    /\ local_theta = None
    /\ thrust = None
    /\ IdleArcade
    /\ IdleMain
    /\ IdleKbd
    /\ IdleArgs
    /\ IdlePad
    /\ IdleRobot
    /\ IdleStop

CallGetMotorThrust ==
    /\ thrust = None
    /\ local_theta' = normalize_theta(in_theta)
    /\ thrust' = _get_motor_thrust(in_r, in_theta)
    /\ UNCHANGED <<in_r, in_theta, notThrustVars>>

NextThrust == CallGetMotorThrust

SpecThrust == InitThrust /\ [][NextThrust]_vars

\* --------------------------------- main() of Scripts/rc-wireless-opencv.py
\* pc: "connect"  lines 142-167   "loop"     line 170 (the loop test)
\*     "events"   lines 183-220   "control"  lines 223-227
\*     "expr"     line 230        "playing"  lines 246-271
\*     "drive"    lines 274-286   "tick"     lines 288-290
\*     "cleanup"  lines 293-294   "disconnect" line 295   "stop" line 296
\*     "finally"  line 298        "left"     main has returned or thrown
Buttons == 0..(NumButtons - 1)
Axes == 0..(NumAxes - 1)
EventValues == {-AxisScale, -1, 0, 2, AxisScale}

\* -deadband < value < deadband, the deadband being 1/inv.
InDeadband(value, inv) == Abs(value) * inv < AxisScale

InitMain ==
    /\ pc = "connect"
    /\ run_cozmo \in BOOLEAN
    /\ cli = None
    /\ connected = FALSE
    /\ done = FALSE
    /\ forward_speed = 0 /\ turn_speed = 0 /\ head_speed = 0 /\ lift_speed = 0
    /\ expression = -1
    /\ make_sound = FALSE
    /\ nevents = 0
    /\ frame = 0
    /\ raised = FALSE
    /\ calls = <<>>
    /\ last_event = NoEvent
    /\ IdleArcade
    /\ IdleThrust
    /\ IdleKbd
    /\ IdleArgs
    /\ IdlePad
    /\ IdleRobot
    /\ IdleStop

\* Lines 142-167.
Connect ==
    /\ pc = "connect"
    /\ IF run_cozmo
       THEN /\ cli' = "Client"
            /\ connected' = TRUE
            /\ calls' = <<<<"start">>, <<"connect">>, <<"wait_for_robot">>,
                          <<"enable_camera">>, <<"load_anims">>,
                          <<"set_lift_height", 0>>, <<"set_head_angle", 0>>,
                          <<"add_handler">>>>
       ELSE UNCHANGED <<cli, connected, calls>>
    /\ pc' = "loop"
    /\ UNCHANGED <<run_cozmo, done, inputVars, expression, make_sound, nevents,
                   frame, raised, ghostVars, notMainVars>>

\* Line 170: while not done.
LoopTest ==
    /\ pc = "loop"
    /\ IF done
       THEN pc' = "cleanup" /\ UNCHANGED calls
       ELSE pc' = "events" /\ calls' = <<>>
    /\ nevents' = 0
    /\ UNCHANGED <<run_cozmo, cli, connected, done, inputVars, expression,
                   make_sound, frame, raised, ghostVars, notMainVars>>

EventFrame ==
    /\ pc = "events"
    /\ nevents < MaxEvents
    /\ nevents' = nevents + 1
    /\ UNCHANGED <<pc, run_cozmo, cli, connected, frame, raised, calls,
                   notMainVars>>

\* Lines 184-185.
EventQuit ==
    /\ EventFrame
    /\ done' = TRUE
    /\ last_event' = <<"QUIT">>
    /\ UNCHANGED <<inputVars, expression, make_sound>>

\* Lines 186-194.
EventButtonDown(button) ==
    /\ EventFrame
    /\ IF button < 4
       THEN expression' = button /\ UNCHANGED <<make_sound, done>>
       ELSE IF button = 4 \/ button = 5
       THEN make_sound' = TRUE /\ UNCHANGED <<expression, done>>
       ELSE IF button = 7
       THEN done' = TRUE /\ UNCHANGED <<expression, make_sound>>
       ELSE UNCHANGED <<expression, make_sound, done>>
    /\ last_event' = <<"JOYBUTTONDOWN", button>>
    /\ UNCHANGED <<inputVars>>

\* Lines 195-197, and every event type the loop does not name.
EventIgnored ==
    /\ EventFrame
    /\ last_event' = <<"OTHER">>
    /\ UNCHANGED <<done, inputVars, expression, make_sound>>

\* The axis handling with the forward axis taken as it comes.
EventAxisMotion_forward_not_negated(axis, value) ==
    /\ EventFrame
    /\ IF axis = 1
       THEN /\ forward_speed' =
                   IF InDeadband(value, wheel_deadband_inv) THEN 0 ELSE value
            /\ UNCHANGED <<turn_speed, head_speed, lift_speed>>
       ELSE IF axis = 0
       THEN /\ turn_speed' =
                   IF InDeadband(value, wheel_deadband_inv) THEN 0 ELSE value
            /\ UNCHANGED <<forward_speed, head_speed, lift_speed>>
       ELSE IF axis = 3
       THEN /\ head_speed' =
                   IF InDeadband(value, head_deadband_inv) THEN 0
                   ELSE -value * max_head_speed
            /\ UNCHANGED <<forward_speed, turn_speed, lift_speed>>
       ELSE IF axis = 2
       THEN /\ lift_speed' =
                   IF InDeadband(value, lift_deadband_inv) THEN 0
                   ELSE -value * max_lift_speed
            /\ UNCHANGED <<forward_speed, turn_speed, head_speed>>
       ELSE UNCHANGED inputVars
    /\ last_event' = <<"JOYAXISMOTION", axis, value>>
    /\ UNCHANGED <<done, expression, make_sound>>

\* Lines 198-220.
EventAxisMotion(axis, value) ==
    /\ EventFrame
    /\ IF axis = 1
       THEN /\ forward_speed' =
                   IF InDeadband(value, wheel_deadband_inv) THEN 0 ELSE -value
            /\ UNCHANGED <<turn_speed, head_speed, lift_speed>>
       ELSE IF axis = 0
       THEN /\ turn_speed' =
                   IF InDeadband(value, wheel_deadband_inv) THEN 0 ELSE value
            /\ UNCHANGED <<forward_speed, head_speed, lift_speed>>
       ELSE IF axis = 3
       THEN /\ head_speed' =
                   IF InDeadband(value, head_deadband_inv) THEN 0
                   ELSE -value * max_head_speed
            /\ UNCHANGED <<forward_speed, turn_speed, lift_speed>>
       ELSE IF axis = 2
       THEN /\ lift_speed' =
                   IF InDeadband(value, lift_deadband_inv) THEN 0
                   ELSE -value * max_lift_speed
            /\ UNCHANGED <<forward_speed, turn_speed, head_speed>>
       ELSE UNCHANGED inputVars
    /\ last_event' = <<"JOYAXISMOTION", axis, value>>
    /\ UNCHANGED <<done, expression, make_sound>>

\* pygame.event.get() has no further event for this frame.
EventsDone ==
    /\ pc = "events"
    /\ pc' = "control"
    /\ last_event' = NoEvent
    /\ UNCHANGED <<run_cozmo, cli, connected, done, inputVars, expression,
                   make_sound, nevents, frame, raised, calls, notMainVars>>

\* The control calls made whether or not there is a robot.
Control_without_test ==
    /\ pc = "control"
    /\ calls' = calls \o <<<<"move_head", head_speed>>,
                           <<"move_lift", lift_speed>>>>
    /\ pc' = "expr"
    /\ UNCHANGED <<run_cozmo, cli, connected, done, inputVars, expression,
                   make_sound, nevents, frame, raised, ghostVars, notMainVars>>

\* Lines 223-227; without a robot the frame goes on at line 288.
Control ==
    /\ pc = "control"
    /\ IF run_cozmo
       THEN /\ calls' = calls \o <<<<"move_head", head_speed>>,
                                   <<"move_lift", lift_speed>>>>
            /\ pc' = "expr"
       ELSE pc' = "tick" /\ UNCHANGED calls
    /\ UNCHANGED <<run_cozmo, cli, connected, done, inputVars, expression,
                   make_sound, nevents, frame, raised, ghostVars, notMainVars>>

\* The start of the playback without the reset of the flag.
ExpressionStart_flag_kept ==
    /\ pc = "expr"
    /\ expression # -1
    /\ calls' = Append(calls, <<"enable_procedural_face", FALSE>>)
    /\ frame' = 0
    /\ pc' = "playing"
    /\ UNCHANGED <<run_cozmo, cli, connected, done, inputVars, expression,
                   make_sound, nevents, raised, ghostVars, notMainVars>>

\* Lines 230-244: the face is chosen and the flag reset before the playback.
ExpressionStart ==
    /\ pc = "expr"
    /\ expression # -1
    /\ calls' = Append(calls, <<"enable_procedural_face", FALSE>>)
    /\ expression' = IF expression \in 0..3 THEN -1 ELSE expression
    /\ frame' = 0
    /\ pc' = "playing"
    /\ UNCHANGED <<run_cozmo, cli, connected, done, inputVars, make_sound,
                   nevents, raised, ghostVars, notMainVars>>

\* Line 230 with expression == -1.
ExpressionSkip ==
    /\ pc = "expr"
    /\ expression = -1
    /\ pc' = "drive"
    /\ UNCHANGED <<run_cozmo, cli, connected, done, inputVars, expression,
                   make_sound, nevents, frame, raised, calls, ghostVars, notMainVars>>

\* Lines 253-267: one face image.
ExpressionFrame ==
    /\ pc = "playing"
    /\ frame < ExprFrames
    /\ frame' = frame + 1
    /\ calls' = Append(calls, <<"display_image">>)
    /\ UNCHANGED <<pc, run_cozmo, cli, connected, done, inputVars, expression,
                   make_sound, nevents, raised, ghostVars, notMainVars>>

\* Line 272.
ExpressionEnd ==
    /\ pc = "playing"
    /\ frame = ExprFrames
    /\ calls' = Append(calls, <<"enable_procedural_face", TRUE>>)
    /\ pc' = "drive"
    /\ UNCHANGED <<run_cozmo, cli, connected, done, inputVars, expression,
                   make_sound, nevents, frame, raised, ghostVars, notMainVars>>

\* Lines 274-286.
DriveWheels ==
    /\ pc = "drive"
    /\ make_sound' = FALSE
    /\ LET w == translate_speed(forward_speed, turn_speed)
       IN  calls' = Append(calls, <<"drive_wheels", w[1], w[2]>>)
    /\ pc' = "tick"
    /\ UNCHANGED <<run_cozmo, cli, connected, done, inputVars, expression,
                   nevents, frame, raised, ghostVars, notMainVars>>

\* Lines 288-290.
Tick ==
    /\ pc = "tick"
    /\ pc' = "loop"
    /\ UNCHANGED <<run_cozmo, cli, connected, done, inputVars, expression,
                   make_sound, nevents, frame, raised, calls, ghostVars, notMainVars>>

\* Lines 293-294.
CleanupStopAllMotors ==
    /\ pc = "cleanup"
    /\ IF run_cozmo
       THEN calls' = Append(calls, <<"stop_all_motors">>) /\ pc' = "disconnect"
       ELSE UNCHANGED calls /\ pc' = "finally"
    /\ UNCHANGED <<run_cozmo, cli, connected, done, inputVars, expression,
                   make_sound, nevents, frame, raised, ghostVars, notMainVars>>

\* Line 295.
CleanupDisconnect ==
    /\ pc = "disconnect"
    /\ calls' = Append(calls, <<"disconnect">>)
    /\ connected' = FALSE
    /\ pc' = "stop"
    /\ UNCHANGED <<run_cozmo, cli, done, inputVars, expression, make_sound,
                   nevents, frame, raised, ghostVars, notMainVars>>

\* Line 296.
CleanupStop ==
    /\ pc = "stop"
    /\ calls' = Append(calls, <<"stop">>)
    /\ pc' = "finally"
    /\ UNCHANGED <<run_cozmo, cli, connected, done, inputVars, expression,
                   make_sound, nevents, frame, raised, ghostVars, notMainVars>>

\* An exception raised by a statement of the try block (a pygame call, a
\* client call, KeyboardInterrupt): control goes to line 297.  During the
\* set-up of lines 142-167 it is raised before the client object exists.
TryPositions == {"connect", "loop", "events", "control", "expr", "playing",
                 "drive", "tick", "cleanup", "disconnect", "stop"}

Raise ==
    /\ pc \in TryPositions
    /\ raised' = TRUE
    /\ pc' = "finally"
    /\ last_event' = NoEvent
    /\ UNCHANGED <<run_cozmo, cli, connected, done, inputVars, expression,
                   make_sound, nevents, frame, calls, notMainVars>>

\* Lines 297-298: pygame.quit(), then main returns or the exception goes on.
Finally ==
    /\ pc = "finally"
    /\ pc' = "left"
    /\ UNCHANGED <<run_cozmo, cli, connected, done, inputVars, expression,
                   make_sound, nevents, frame, raised, calls, ghostVars, notMainVars>>

NextMain ==
    \/ Connect
    \/ LoopTest
    \/ EventQuit
    \/ \E button \in Buttons : EventButtonDown(button)
    \/ EventIgnored
    \/ \E axis \in Axes, value \in EventValues : EventAxisMotion(axis, value)
    \/ EventsDone
    \/ Control
    \/ ExpressionStart
    \/ ExpressionSkip
    \/ ExpressionFrame
    \/ ExpressionEnd
    \/ DriveWheels
    \/ Tick
    \/ CleanupStopAllMotors
    \/ CleanupDisconnect
    \/ CleanupStop
    \/ Raise
    \/ Finally

SpecMain == InitMain /\ [][NextMain]_vars

\* ---------------- the keyboard teleoperation block of test-connection.py
\* kpc: "setup"  lines 158-168    "ready"  line 173, before the first pass
\*      "loop"   lines 174-190    "act"    lines 193-268
\*      "end"    lines 270-275    "finally" line 279
\*      "f_lift" line 282         "f_head" line 285
\*      "f_close" lines 288-294   "exit"   the with block is left
\*      "left"   the connection is closed
Keys == {"w", "s", "a", "d", "k", "j", "n", "m", "l", "q", "other"}

\* HEAD_TILT of line 74.
HEAD_TILT_0 == (MAX_HEAD_ANGLE - MIN_HEAD_ANGLE) \div 10

\* The angular velocity <<c, k>> in units of 1/(TRACK_WIDTH*180*PiDen) rad/s.
AngNum(a) ==
    a[1] * MAX_WHEEL_SPEED * 180 * PiDen + a[2] * ANG_INC_DEG * PiNum * TRACK_WIDTH
AngMax == <<1, 0>>
AngMin == <<-1, 0>>
\* min(MAX_WHEEL_SPEED/TRACK_WIDTH, a + ANG_INC), line 211.
AngUp(a) ==
    LET b == <<a[1], a[2] + 1>>
    IN  IF AngNum(b) < AngNum(AngMax) THEN b ELSE AngMax
\* max(-MAX_WHEEL_SPEED/TRACK_WIDTH, a - ANG_INC), line 215.
AngDown(a) ==
    LET b == <<a[1], a[2] - 1>>
    IN  IF AngNum(b) > AngNum(AngMin) THEN b ELSE AngMin

\* One unit of the wheel speeds passed to drive_wheels is 1/KbdSpeedUnit mm/s.
KbdSpeedUnit == 2 * 180 * PiDen
\* Lines 221-226: only the upper end is clamped.
l_speed(lin, ang) ==
    Min2(MAX_WHEEL_SPEED * KbdSpeedUnit, lin * KbdSpeedUnit - AngNum(ang))
r_speed(lin, ang) ==
    Min2(MAX_WHEEL_SPEED * KbdSpeedUnit, lin * KbdSpeedUnit + AngNum(ang))

\* Set points the loop is in after enough key presses: every combination of
\* the extreme and the initial velocities (10 x w or s, 13 x a or d), and the
\* extreme head angles and lift heights (19 x k, 17 x j, 12 x m).
StartSetPoints ==
    {<<lin, ang, HEAD_TILT_0, MIN_LIFT_HEIGHT>> :
        lin \in {-MAX_WHEEL_SPEED, 0, MAX_WHEEL_SPEED},
        ang \in {AngMin, <<0, 0>>, AngMax}}
    \cup
    {<<0, <<0, 0>>, h, l>> :
        h \in {MIN_HEAD_ANGLE, MAX_HEAD_ANGLE},
        l \in {MIN_LIFT_HEIGHT, MAX_LIFT_HEIGHT}}

InitKbd ==
    /\ \/ /\ kpc = "setup"
          /\ LIN_VELOCITY = 0
          /\ ANG_VELOCITY = <<0, 0>>
          /\ HEAD_TILT = HEAD_TILT_0
          /\ LIFT_HEIGHT = MIN_LIFT_HEIGHT
       \/ /\ kpc = "loop"
          /\ \E sp \in StartSetPoints :
                /\ LIN_VELOCITY = sp[1]
                /\ ANG_VELOCITY = sp[2]
                /\ HEAD_TILT = sp[3]
                /\ LIFT_HEIGHT = sp[4]
    /\ HEAD_LIGHT = FALSE
    /\ key = None
    /\ keys = 0
    /\ kcalls = <<>>
    /\ cleanup = <<>>
    /\ kconnected = TRUE
    /\ kraised = FALSE
    /\ IdleArcade
    /\ IdleThrust
    /\ IdleMain
    /\ IdleArgs
    /\ IdlePad
    /\ IdleRobot
    /\ IdleStop

\* Lines 158-168.
Setup ==
    /\ kpc = "setup"
    /\ kcalls' = <<<<"set_head_angle", HEAD_TILT>>, <<"enable_camera">>,
                   <<"set_lift_height", LIFT_HEIGHT>>, <<"add_handler">>>>
    /\ kpc' = "ready"
    /\ UNCHANGED <<setVars, key, keys, cleanup, kconnected, kraised, notKbdVars>>

\* Line 173, the first time.
EnterLoop ==
    /\ kpc = "ready"
    /\ kcalls' = <<>>
    /\ kpc' = "loop"
    /\ UNCHANGED <<setVars, key, keys, cleanup, kconnected, kraised, notKbdVars>>

\* Lines 174-190: the frame is shown (or not) and the next key is read.
ReadKey(k) ==
    /\ kpc = "loop"
    /\ keys < MaxKeys
    /\ key' = k
    /\ keys' = keys + 1
    /\ kpc' = "act"
    /\ UNCHANGED <<setVars, kcalls, cleanup, kconnected, kraised, notKbdVars>>

\* Lines 193-195.
ActQuit ==
    /\ kpc = "act"
    /\ key = "q"
    /\ kpc' = "finally"
    /\ UNCHANGED <<setVars, key, keys, kcalls, cleanup, kconnected, kraised,
                   notKbdVars>>

\* Lines 199-230.
ActDrive ==
    /\ kpc = "act"
    /\ key \in {"w", "s", "a", "d"}
    /\ LIN_VELOCITY' =
          IF key = "w" THEN Min2(MAX_WHEEL_SPEED, LIN_VELOCITY + LIN_INC)
          ELSE IF key = "s" THEN Max2(-MAX_WHEEL_SPEED, LIN_VELOCITY - LIN_INC)
          ELSE LIN_VELOCITY
    /\ ANG_VELOCITY' =
          IF key = "a" THEN AngUp(ANG_VELOCITY)
          ELSE IF key = "d" THEN AngDown(ANG_VELOCITY)
          ELSE ANG_VELOCITY
    /\ kcalls' = Append(kcalls, <<"drive_wheels",
                                  l_speed(LIN_VELOCITY', ANG_VELOCITY'),
                                  r_speed(LIN_VELOCITY', ANG_VELOCITY')>>)
    /\ kpc' = "end"
    /\ UNCHANGED <<HEAD_TILT, LIFT_HEIGHT, HEAD_LIGHT, key, keys, cleanup,
                   kconnected, kraised, notKbdVars>>

\* Lines 234-245.
ActHead ==
    /\ kpc = "act"
    /\ key \in {"k", "j"}
    /\ HEAD_TILT' =
          IF key = "k" THEN Min2(MAX_HEAD_ANGLE, HEAD_TILT + HEAD_INC)
          ELSE Max2(MIN_HEAD_ANGLE, HEAD_TILT - HEAD_INC)
    /\ kcalls' = Append(kcalls, <<"set_head_angle", HEAD_TILT'>>)
    /\ kpc' = "end"
    /\ UNCHANGED <<LIN_VELOCITY, ANG_VELOCITY, LIFT_HEIGHT, HEAD_LIGHT, key,
                   keys, cleanup, kconnected, kraised, notKbdVars>>

\* Lines 248-259.
ActLift ==
    /\ kpc = "act"
    /\ key \in {"n", "m"}
    /\ LIFT_HEIGHT' =
          IF key = "m" THEN Min2(MAX_LIFT_HEIGHT, LIFT_HEIGHT + LIFT_INC)
          ELSE Max2(MIN_LIFT_HEIGHT, LIFT_HEIGHT - LIFT_INC)
    /\ kcalls' = Append(kcalls, <<"set_lift_height", LIFT_HEIGHT'>>)
    /\ kpc' = "end"
    /\ UNCHANGED <<LIN_VELOCITY, ANG_VELOCITY, HEAD_TILT, HEAD_LIGHT, key,
                   keys, cleanup, kconnected, kraised, notKbdVars>>

\* Lines 260-264.
ActLight ==
    /\ kpc = "act"
    /\ key = "l"
    /\ HEAD_LIGHT' = ~HEAD_LIGHT
    /\ kcalls' = Append(kcalls, <<"set_head_light", HEAD_LIGHT'>>)
    /\ kpc' = "end"
    /\ UNCHANGED <<LIN_VELOCITY, ANG_VELOCITY, HEAD_TILT, LIFT_HEIGHT, key,
                   keys, cleanup, kconnected, kraised, notKbdVars>>

\* A key without a binding answered with a stop of the wheels.
ActOther_drives ==
    /\ kpc = "act"
    /\ key = "other"
    /\ key' = None
    /\ kcalls' = Append(kcalls, <<"drive_wheels", 0, 0>>)
    /\ kpc' = "loop"
    /\ UNCHANGED <<setVars, keys, cleanup, kconnected, kraised, notKbdVars>>

\* Lines 266-268: continue.
ActOther ==
    /\ kpc = "act"
    /\ key = "other"
    /\ key' = None
    /\ kpc' = "loop"
    /\ UNCHANGED <<setVars, keys, kcalls, cleanup, kconnected, kraised,
                   notKbdVars>>

\* Lines 270-275, and back to line 173.
EndIteration ==
    /\ kpc = "end"
    /\ key' = None
    /\ kcalls' = <<>>
    /\ kpc' = "loop"
    /\ UNCHANGED <<setVars, keys, cleanup, kconnected, kraised, notKbdVars>>

\* An exception raised by a statement inside the try (lines 158-275).
KRaise ==
    /\ kpc \in {"setup", "ready", "loop", "act", "end"}
    /\ kraised' = TRUE
    /\ kpc' = "finally"
    /\ UNCHANGED <<setVars, key, keys, kcalls, cleanup, kconnected, notKbdVars>>

\* A call of the finally block: made, after which it returns (ok) or raises,
\* and a raise leaves the finally block and the with block.
FinallyCall(call, next, ok) ==
    /\ cleanup' = Append(cleanup, call)
    /\ kpc' = IF ok THEN next ELSE "exit"
    /\ kraised' = (kraised \/ ~ok)
    /\ UNCHANGED <<setVars, key, keys, kcalls, kconnected, notKbdVars>>

\* The finally block with the lift lowered before the motors are stopped.
FinallyStopAllMotors_after_lift ==
    /\ kpc = "finally"
    /\ \E ok \in BOOLEAN :
          FinallyCall(<<"set_lift_height", MIN_LIFT_HEIGHT>>, "f_lift", ok)

\* Line 279.
FinallyStopAllMotors ==
    /\ kpc = "finally"
    /\ \E ok \in BOOLEAN :
          FinallyCall(<<"stop_all_motors">>, "f_lift", ok)

\* Line 282.
FinallyLift ==
    /\ kpc = "f_lift"
    /\ \E ok \in BOOLEAN :
          FinallyCall(<<"set_lift_height", MIN_LIFT_HEIGHT>>, "f_head", ok)

\* Line 285.
FinallyHead ==
    /\ kpc = "f_head"
    /\ \E ok \in BOOLEAN :
          FinallyCall(<<"set_head_angle", MIN_HEAD_ANGLE>>, "f_close", ok)

\* Lines 288-294: the windows are closed and the image queue is drained.
FinallyClose ==
    /\ kpc = "f_close"
    /\ kpc' = "exit"
    /\ UNCHANGED <<setVars, key, keys, kcalls, cleanup, kconnected, kraised,
                   notKbdVars>>

\* The with block of line 156 is left: the connection is closed.
ExitConnection ==
    /\ kpc = "exit"
    /\ kconnected' = FALSE
    /\ kpc' = "left"
    /\ UNCHANGED <<setVars, key, keys, kcalls, cleanup, kraised, notKbdVars>>

\* stop_all stopping whatever state says.
stop_all_state_ignored(state_arg) ==
    /\ kcalls' = Append(kcalls, <<"stop_all_motors">>)
    /\ LIN_VELOCITY' = 0
    /\ ANG_VELOCITY' = <<0, 0>>
    /\ UNCHANGED <<HEAD_TILT, LIFT_HEIGHT, HEAD_LIGHT>>

\* Lines 132-152.
stop_all(state_arg) ==
    /\ IF state_arg
       THEN /\ kcalls' = Append(kcalls, <<"stop_all_motors">>)
            /\ LIN_VELOCITY' = 0
            /\ ANG_VELOCITY' = <<0, 0>>
       ELSE UNCHANGED <<kcalls, LIN_VELOCITY, ANG_VELOCITY>>
    /\ UNCHANGED <<HEAD_TILT, LIFT_HEIGHT, HEAD_LIGHT>>

\* The handlers the keyboard block registers with the client: line 167
\* registers on_camera_img, and line 170 is a comment with no statement.
Handlers == {<<"EvtNewRawCameraImage", "on_camera_img">>}
RobotEvents == {"EvtRobotPickedUpChange", "EvtCliffDetectedChange"}

\* The robot reports event with the given state while the loop runs: the
\* client calls the handlers registered for the event, lines 167-170.
RobotReports(event, state_arg) ==
    /\ kpc \in {"loop", "act", "end"}
    /\ robot_event' = <<event, state_arg>>
    /\ IF <<event, "stop_all">> \in Handlers
       THEN stop_all(state_arg)
       ELSE UNCHANGED <<setVars, kcalls>>
    /\ UNCHANGED <<kpc, key, keys, cleanup, kconnected, kraised, arcadeVars,
                   thrustVars, mainVars, argVars, padVars, stopVars>>

NextKbd ==
    \/ Setup
    \/ EnterLoop
    \/ \E k \in Keys : ReadKey(k)
    \/ ActQuit
    \/ ActDrive
    \/ ActHead
    \/ ActLift
    \/ ActLight
    \/ ActOther
    \/ EndIteration
    \/ KRaise
    \/ \E event \in RobotEvents, state_arg \in BOOLEAN :
          RobotReports(event, state_arg)
    \/ FinallyStopAllMotors
    \/ FinallyLift
    \/ FinallyHead
    \/ FinallyClose
    \/ ExitConnection

SpecKbd == InitKbd /\ [][NextKbd]_vars

\* ------------------ the __main__ block of Scripts/rc-wireless-opencv.py
\* apc: "start" line 305   "parsed" line 326   "done" the block has ended
ArgWords == {"nocozmo", "debug", "-v", "help", "-h", "--h", "?", "other"}
HelpWords == {"help", "-h", "--h", "?"}

RECURSIVE SeqsUpTo(_, _)
\* The sequences over S of length at most n.
SeqsUpTo(S, n) ==
    IF n = 0 THEN {<<>>}
    ELSE LET shorter == SeqsUpTo(S, n - 1)
         IN  shorter \cup {Append(q, x) : q \in shorter, x \in S}

\* Lines 310-313: sys.argv[1:len(sys.argv)-1], or [""].
commands(av) ==
    IF Len(av) >= 2 THEN SubSeq(av, 2, Len(av) - 1) ELSE <<"">>

InitArgs ==
    /\ apc = "start"
    /\ argv \in {<<"prog">> \o q : q \in SeqsUpTo(ArgWords, MaxArgs)}
    /\ arg_run_cozmo = TRUE
    /\ use_debug = FALSE
    /\ print_help = FALSE
    /\ main_args = None
    /\ IdleArcade
    /\ IdleThrust
    /\ IdleMain
    /\ IdleKbd
    /\ IdlePad
    /\ IdleRobot
    /\ IdleStop

\* Lines 305-323.
ParseArgs ==
    /\ apc = "start"
    /\ LET cmds == commands(argv)
           Has(W) == \E i \in 1..Len(cmds) : cmds[i] \in W
       IN  /\ arg_run_cozmo' = ~Has({"nocozmo"})
           /\ use_debug' = Has({"debug", "-v"})
           /\ print_help' = Has(HelpWords)
    /\ apc' = "parsed"
    /\ UNCHANGED <<argv, main_args, notArgVars>>

\* Lines 326-337.
PrintHelp ==
    /\ apc = "parsed"
    /\ print_help
    /\ apc' = "done"
    /\ UNCHANGED <<argv, arg_run_cozmo, use_debug, print_help, main_args,
                   notArgVars>>

\* Lines 338-339.
CallMain ==
    /\ apc = "parsed"
    /\ ~print_help
    /\ main_args' = <<arg_run_cozmo, use_debug>>
    /\ apc' = "done"
    /\ UNCHANGED <<argv, arg_run_cozmo, use_debug, print_help, notArgVars>>

NextArgs ==
    \/ ParseArgs
    \/ PrintHelp
    \/ CallMain

SpecArgs == InitArgs /\ [][NextArgs]_vars

\* --------------------------------- RCApp._handle_input, test-connection.py
PadScale == 32768      \* self.speed and self.steering are kept in 1/PadScale
TriggerScale == 255    \* self.speed_left and self.speed_right in 1/TriggerScale
PadDeadbandNum == 15   \* the deadband 0.15 is PadDeadbandNum / PadDeadbandDen
PadDeadbandDen == 100

\* _get_motor_thrust with its units as arguments: r in 1/pct percent, theta
\* in units of which quarter make 90 degrees (quarter is even). The result
\* is in 1/(pct * quarter/2) percent. The cap of line 311 is compared
\* before it is built, so that magnitudes far below it need no wide integers.
_get_motor_thrust_scaled(r, theta, pct, quarter) ==
    LET half == quarter \div 2
        unit == pct * half
        theta1 == ((theta + 2 * quarter) % (4 * quarter)) - 2 * quarter
        r1 == Min2(Max2(0, r), 100 * pct)
        v_a == r1 * (half - (theta1 % quarter))
        low == Min2(2 * r1 * half + v_a, 2 * r1 * half - v_a)
        v_b == IF low \div unit >= 100 THEN 100 * unit ELSE low
    IN  IF theta1 < -quarter THEN <<-v_b, -v_a>>
        ELSE IF theta1 < 0 THEN <<-v_a, v_b>>
        ELSE IF theta1 < quarter THEN <<v_b, v_a>>
        ELSE <<v_a, -v_b>>

\* Lines 360-362 and 368-370 without the negation.
axis_value_not_negated(state) ==
    IF PadDeadbandDen * Abs(state) < PadDeadbandNum * PadScale THEN 0 ELSE state

\* Lines 360-362 and 368-370: float(-e.state) / 32768.0, 0 inside the
\* open deadband.
axis_value(state) ==
    IF PadDeadbandDen * Abs(-state) < PadDeadbandNum * PadScale THEN 0 ELSE -state

\* The largest raw state inside the deadband.
DeadbandEdge == (PadDeadbandNum * PadScale) \div PadDeadbandDen
StickStates ==
    {-PadScale, -DeadbandEdge - 1, -DeadbandEdge, 0, DeadbandEdge,
     DeadbandEdge + 1, PadScale - 1}
TriggerStates == {0, TriggerScale \div 2, TriggerScale}
KeyCodes == {"BTN_START", "BTN_TRIGGER_HAPPY1", "BTN_TRIGGER_HAPPY2",
             "BTN_TRIGGER_HAPPY3", "BTN_TRIGGER_HAPPY4", "BTN_SOUTH"}
\* The events of the device: <<ev_type, code, state>>.
PadEvents ==
    ({"Key"} \X KeyCodes \X {0, 1})
    \cup ({"Absolute"} \X {"ABS_RX", "ABS_Y"} \X StickStates)
    \cup ({"Absolute"} \X {"ABS_Z", "ABS_RZ"} \X TriggerStates)
    \cup ({"Absolute"} \X {"ABS_HAT0Y", "ABS_HAT0X"} \X {-1, 0, 1})
    \cup {<<"Absolute", "ABS_X", 0>>, <<"Sync", "SYN_REPORT", 0>>}

\* Lines 49-58.
InitPad ==
    /\ speed = 0
    /\ steering = 0
    /\ speed_left = 0
    /\ speed_right = 0
    /\ lift = TRUE
    /\ pad_event = NoPadEvent
    /\ pcalls = <<>>
    /\ IdleArcade
    /\ IdleThrust
    /\ IdleMain
    /\ IdleKbd
    /\ IdleArgs
    /\ IdleStop
    /\ IdleRobot

\* Lines 410-413 without the half turn of a reversed drive.
update_theta_no_half_turn(speed1, steering1) == -steering1

\* Lines 409-413, the throttle and the angle that the update block passes
\* to _get_motor_thrust: r = self.speed, theta = -self.steering * 90.0,
\* and for r < 0: r *= -1.0, theta += 180.0.
update_r(speed1) == IF speed1 < 0 THEN -speed1 ELSE speed1
update_theta(speed1, steering1) ==
    IF speed1 < 0 THEN -steering1 + 2 * PadScale ELSE -steering1

\* Lines 321-420, the whole handler for one event e. The methods stop,
\* _drive_lift and _drive_wheels are recorded as calls; _drive_lift takes
\* tenths, the _drive_wheels of line 417 thrust units of 1/(PadScale *
\* PadScale/2) and the _drive_wheels of line 420 units of 1/TriggerScale.
\* theta is in units of 90/PadScale degrees, so that -steering * 90.0 is
\* -steering and 180.0 is 2 * PadScale.
_handle_input(e) ==
    LET ev_type == e[1]
        code == e[2]
        state == e[3]
        absolute == ev_type = "Absolute"
        update == absolute /\ code \in {"ABS_RX", "ABS_Y"}
        update2 == absolute /\ code \in {"ABS_Z", "ABS_RZ"}
        steering1 == IF absolute /\ code = "ABS_RX" THEN axis_value(state)
                     ELSE steering
        speed1 == IF absolute /\ code = "ABS_Y" THEN axis_value(state)
                  ELSE speed
        left1 == IF absolute /\ code = "ABS_Z" THEN state ELSE speed_left
        right1 == IF absolute /\ code = "ABS_RZ" THEN state ELSE speed_right
        lift1 ==
            IF ev_type = "Key" /\ state = 1 /\ code = "BTN_TRIGGER_HAPPY1"
            THEN FALSE
            ELSE IF ev_type = "Key" /\ state = 1 /\ code = "BTN_TRIGGER_HAPPY2"
            THEN TRUE
            ELSE IF absolute /\ code = "ABS_HAT0X" /\ state = 1 THEN TRUE
            ELSE IF absolute /\ code = "ABS_HAT0X" /\ state = -1 THEN FALSE
            ELSE lift
        direct ==
            IF ev_type = "Key" /\ code = "BTN_START"
            THEN IF state = 1 THEN << <<"stop">> >> ELSE <<>>
            ELSE IF ev_type = "Key" /\ code = "BTN_TRIGGER_HAPPY3"
            THEN << <<"_drive_lift", IF state = 1 THEN 8 ELSE 0>> >>
            ELSE IF ev_type = "Key" /\ code = "BTN_TRIGGER_HAPPY4"
            THEN << <<"_drive_lift", IF state = 1 THEN -8 ELSE 0>> >>
            ELSE IF absolute /\ code = "ABS_HAT0Y"
            THEN << <<"_drive_lift",
                      IF state = -1 THEN 8 ELSE IF state = 1 THEN -8 ELSE 0>> >>
            ELSE <<>>
        r == update_r(speed1)
        theta == update_theta(speed1, steering1)
        v == _get_motor_thrust_scaled(r, theta, PadScale, PadScale)
    IN  /\ steering' = steering1
        /\ speed' = speed1
        /\ speed_left' = left1
        /\ speed_right' = right1
        /\ lift' = lift1
        /\ pad_event' = e
        /\ pcalls' =
               direct
               \o (IF update
                   THEN << <<"_get_motor_thrust", r, theta>>,
                           <<"_drive_wheels", v[1], v[2]>> >>
                   ELSE <<>>)
               \o (IF update2 THEN << <<"_drive_wheels", left1, right1>> >>
                   ELSE <<>>)
        /\ UNCHANGED notPadVars

\* InputThread hands every event of the device to the handler.
HandleInput == \E e \in PadEvents : _handle_input(e)

NextPad == HandleInput

SpecPad == InitPad /\ [][NextPad]_vars

\* _get_motor_thrust on its own and the handler that calls it, side by
\* side: a behaviour either applies the function to one throttle and angle
\* or runs the handler on a sequence of events.
InitReverse == InitThrust \/ InitPad

ReverseThrust == IdlePad /\ CallGetMotorThrust

\* The handler runs where the function has been given no arguments.
ReverseInput == in_r = 0 /\ in_theta = 0 /\ thrust = None /\ HandleInput

NextReverse ==
    \/ ReverseThrust
    \/ ReverseInput

SpecReverse == InitReverse /\ [][NextReverse]_vars

\* ------------------------------------------- stop_all, test-connection.py
\* The function is defined at lines 132-152; the keyboard block does not
\* call it and registers it with no event (line 170 is a comment only), so
\* it is run here on its own, from set points of the keyboard loop.
\* kpc: "stop_all" the call is about to be made   "stopped" it has returned

InitStopAll ==
    /\ kpc = "stop_all"
    /\ in_state \in BOOLEAN
    /\ LIN_VELOCITY \in {-MAX_WHEEL_SPEED, -LIN_INC, 0, LIN_INC, MAX_WHEEL_SPEED}
    /\ ANG_VELOCITY \in {AngMin, <<0, -1>>, <<0, 0>>, <<0, 1>>, AngMax}
    /\ HEAD_TILT \in {MIN_HEAD_ANGLE, HEAD_TILT_0, MAX_HEAD_ANGLE}
    /\ LIFT_HEIGHT \in {MIN_LIFT_HEIGHT, MAX_LIFT_HEIGHT}
    /\ HEAD_LIGHT \in BOOLEAN
    /\ key = None
    /\ keys = 0
    /\ kcalls = <<>>
    /\ cleanup = <<>>
    /\ kconnected = TRUE
    /\ kraised = FALSE
    /\ IdleArcade
    /\ IdleThrust
    /\ IdleMain
    /\ IdleArgs
    /\ IdlePad
    /\ IdleRobot

CallStopAll ==
    /\ kpc = "stop_all"
    /\ stop_all(in_state)
    /\ kpc' = "stopped"
    /\ UNCHANGED <<key, keys, cleanup, kconnected, kraised, notKbdVars>>

NextStopAll == CallStopAll

SpecStopAll == InitStopAll /\ [][NextStopAll]_vars

\* ============================================================== claims
MaxSpeedUnits == max_wheel_speed * SpeedUnit
MaxThrustUnits == 100 * ThrustUnit

\* C1 (as claimed): for every fwd and turn in [-1, 1], both wheel speeds
\* returned by translate_speed lie in [-max_wheel_speed, max_wheel_speed].
C1_WheelSpeedsBounded ==
    wheels # None =>
        /\ Abs(wheels[1]) <= MaxSpeedUnits
        /\ Abs(wheels[2]) <= MaxSpeedUnits

\* C2: for every throttle (clamped into [0, 100]) and every steering angle,
\* both thrusts returned by _get_motor_thrust lie in [-100, 100].
C2_ThrustBounded ==
    thrust # None =>
        /\ Abs(thrust[1]) <= MaxThrustUnits
        /\ Abs(thrust[2]) <= MaxThrustUnits

\* A throttle above 100 has been clamped and a thrust sits on the bound.
C2_Witness ==
    /\ thrust # None
    /\ in_r > 100
    /\ Abs(in_theta) > 360 * AngleScale
    /\ Abs(thrust[1]) = MaxThrustUnits

\* C5: translate_speed with at most one nonzero input: (0, 0) gives (0, 0);
\* fwd = 0 gives (turn*max, -turn*max); turn = 0 gives (fwd*max, fwd*max);
\* full turn deflection at rest reaches +/-max on each wheel; (0.5, 0) gives
\* (75, 75) and (0, 0.5) gives (75, -75).
C5_SingleAxisCases ==
    wheels # None =>
        /\ (in_fwd = 0 /\ in_turn = 0) => wheels = <<0, 0>>
        /\ (in_fwd = 0 /\ in_turn # 0) =>
              /\ wheels[1] * AxisScale = in_turn * MaxSpeedUnits
              /\ wheels[2] * AxisScale = -in_turn * MaxSpeedUnits
        /\ (in_turn = 0 /\ in_fwd # 0) =>
              /\ wheels[1] * AxisScale = in_fwd * MaxSpeedUnits
              /\ wheels[2] * AxisScale = in_fwd * MaxSpeedUnits
        /\ (in_fwd = 0 /\ Abs(in_turn) = AxisScale) =>
              /\ Abs(wheels[1]) = MaxSpeedUnits
              /\ wheels[2] = -wheels[1]
        /\ (2 * in_fwd = AxisScale /\ in_turn = 0) =>
              wheels = <<75 * SpeedUnit, 75 * SpeedUnit>>
        /\ (in_fwd = 0 /\ 2 * in_turn = AxisScale) =>
              wheels = <<75 * SpeedUnit, -75 * SpeedUnit>>

\* translate_speed(0, 0.5) has returned (75, -75).
C5_Witness ==
    /\ wheels # None
    /\ in_fwd = 0
    /\ 2 * in_turn = AxisScale
    /\ wheels = <<75 * SpeedUnit, -75 * SpeedUnit>>

\* C6: translate_speed with both inputs nonzero: the mean of the two wheel
\* speeds is fwd*max_wheel_speed and their difference is turn*max_wheel_speed,
\* half the difference of the pure rotation with the same turn.
C6_BlendedCase ==
    (wheels # None /\ in_fwd # 0 /\ in_turn # 0) =>
        /\ (wheels[1] + wheels[2]) * AxisScale = 2 * in_fwd * MaxSpeedUnits
        /\ (wheels[1] - wheels[2]) * AxisScale = in_turn * MaxSpeedUnits
        /\ 2 * (wheels[1] - wheels[2]) =
              translate_speed(0, in_turn)[1] - translate_speed(0, in_turn)[2]

\* translate_speed(1, 1) has returned (225, 75).
C6_Witness ==
    /\ wheels # None
    /\ in_fwd = AxisScale
    /\ in_turn = AxisScale
    /\ wheels = <<225 * SpeedUnit, 75 * SpeedUnit>>

\* C7: _get_motor_thrust(0, theta) is (0, 0) for every theta, in every
\* quadrant branch, and so is it for every negative throttle.
C7_ZeroThrottle ==
    (thrust # None /\ in_r <= 0) => thrust = <<0, 0>>

\* A negative throttle in the branch theta < -90 has returned (0, 0).
C7_Witness ==
    /\ thrust # None
    /\ in_r < 0
    /\ local_theta < -90 * AngleScale
    /\ local_theta % (90 * AngleScale) # 0
    /\ thrust = <<0, 0>>

\* C8: _get_motor_thrust(t, theta) = _get_motor_thrust(t, theta + 360) for
\* every throttle and every angle.
C8_Periodic ==
    thrust # None => thrust = _get_motor_thrust(in_r, in_theta + 360 * AngleScale)

\* A negative angle below -180 with an asymmetric, nonzero result.
C8_Witness ==
    /\ thrust # None
    /\ in_theta < -180 * AngleScale
    /\ in_r > 0
    /\ thrust[1] # thrust[2]
    /\ _get_motor_thrust(in_r, in_theta + 360 * AngleScale) = thrust

\* C9: if _get_motor_thrust(t, theta) = (L, R) then
\* _get_motor_thrust(t, -theta) = (R, L), the branch boundaries included.
C9_MirrorSymmetry ==
    thrust # None => _get_motor_thrust(in_r, -in_theta) = <<thrust[2], thrust[1]>>

\* theta = 30 at throttle 50: an asymmetric result whose mirror is the swap.
C9_Witness ==
    /\ thrust # None
    /\ in_theta = 30 * AngleScale
    /\ in_r = 50
    /\ thrust[1] > thrust[2]
    /\ thrust[2] > 0
    /\ _get_motor_thrust(in_r, -in_theta) = <<thrust[2], thrust[1]>>

Congruent360(a, b) == (a - b) % (360 * AngleScale) = 0

\* C10 (as claimed): the normalised angle is congruent to the input modulo
\* 360 and lies in the half-open interval (-180, 180].
C10_NormalizedUpperClosed ==
    thrust # None =>
        /\ Congruent360(local_theta, in_theta)
        /\ -180 * AngleScale < local_theta
        /\ local_theta <= 180 * AngleScale

\* C10 (amended): the normalised angle is congruent to the input modulo 360
\* and lies in the half-open interval [-180, 180).
C10_NormalizedLowerClosed ==
    thrust # None =>
        /\ Congruent360(local_theta, in_theta)
        /\ -180 * AngleScale <= local_theta
        /\ local_theta < 180 * AngleScale

\* The input 180 has been normalised to -180.
C10_Witness ==
    /\ thrust # None
    /\ in_theta = 180 * AngleScale
    /\ local_theta = -180 * AngleScale

HasCall(log, name) == \E i \in 1..Len(log) : log[i][1] = name
FirstCall(log, name) == CHOOSE i \in 1..Len(log) : log[i][1] = name /\ \A j \in 1..(i - 1) : log[j][1] # name

\* C3 (as claimed): with run_cozmo true, on every exit from the main loop
\* after the client is connected, normal or through an exception raised in
\* the loop, cli.stop_all_motors() is called before the client is released
\* and before main is left.
C3_StopBeforeLeaving ==
    /\ (pc = "left" /\ cli # None) => HasCall(calls, "stop_all_motors")
    /\ HasCall(calls, "disconnect") =>
          /\ HasCall(calls, "stop_all_motors")
          /\ FirstCall(calls, "stop_all_motors") < FirstCall(calls, "disconnect")

\* C4: in the keyboard block, whether the loop ends by the key q or by an
\* exception anywhere inside the try, cli.stop_all_motors() is called before
\* the connection is left, and it is the first command of the cleanup,
\* before the lift and the head are lowered.
C4_StopFirstInCleanup ==
    /\ kpc \in {"f_lift", "f_head", "f_close", "exit", "left"} =>
          /\ Len(cleanup) >= 1
          /\ cleanup[1] = <<"stop_all_motors">>
    /\ (kpc # "idle" /\ ~kconnected) => HasCall(cleanup, "stop_all_motors")
    /\ \A i \in 1..Len(cleanup) :
          cleanup[i][1] \in {"set_lift_height", "set_head_angle"} => i > 1

\* An exception inside the loop, after a drive command, has been followed by
\* the whole cleanup and the connection has been left.
C4_Witness ==
    /\ kpc = "left"
    /\ kraised
    /\ key \in {"w", "s", "a", "d"}
    /\ cleanup = <<<<"stop_all_motors">>,
                   <<"set_lift_height", MIN_LIFT_HEIGHT>>,
                   <<"set_head_angle", MIN_HEAD_ANGLE>>>>

\* C11: for every throttle t in [0, 100], _get_motor_thrust(t, 0) = (t, t)
\* and _get_motor_thrust(t, 90) = (t, -t); (50, 0) gives (50, 50) and
\* (50, 90) gives (50, -50).
C11_CardinalAngles ==
    (thrust # None /\ in_r >= 0 /\ in_r <= 100) =>
        /\ in_theta = 0 =>
              thrust = <<in_r * ThrustUnit, in_r * ThrustUnit>>
        /\ in_theta = 90 * AngleScale =>
              thrust = <<in_r * ThrustUnit, -in_r * ThrustUnit>>
        /\ (in_r = 50 /\ in_theta = 0) =>
              thrust = <<50 * ThrustUnit, 50 * ThrustUnit>>
        /\ (in_r = 50 /\ in_theta = 90 * AngleScale) =>
              thrust = <<50 * ThrustUnit, -50 * ThrustUnit>>

\* _get_motor_thrust(50, 90) has returned (50, -50).
C11_Witness ==
    /\ thrust # None
    /\ in_r = 50
    /\ in_theta = 90 * AngleScale
    /\ thrust = <<50 * ThrustUnit, -50 * ThrustUnit>>

DriveWheelsCalls(log) == {i \in 1..Len(log) : log[i][1] = "drive_wheels"}

\* C12 (as claimed): in the keyboard loop, after any sequence of w/s/a/d key
\* presses, both components of every (l_speed, r_speed) passed to
\* cli.drive_wheels lie in [-MAX_WHEEL_SPEED, MAX_WHEEL_SPEED].
C12_KeyboardSpeedsBounded ==
    \A i \in DriveWheelsCalls(kcalls) :
        /\ Abs(kcalls[i][2]) <= MAX_WHEEL_SPEED * KbdSpeedUnit
        /\ Abs(kcalls[i][3]) <= MAX_WHEEL_SPEED * KbdSpeedUnit

Given(W) == \E i \in 2..Len(argv) : argv[i] \in W

\* C13 (as claimed): started with the argument nocozmo, at any position and
\* with any number of arguments, also as the only or the last one, the
\* program runs main with run_cozmo = False; debug or -v sets use_debug.
C13_ArgumentsHonoured ==
    (apc = "done" /\ ~Given(HelpWords)) =>
        /\ main_args # None
        /\ Given({"nocozmo"}) => main_args[1] = FALSE
        /\ Given({"debug", "-v"}) => main_args[2] = TRUE

\* The event the loop has just handled is a motion of the given axis.
AxisEvent(e, axis) == e[1] = "JOYAXISMOTION" /\ e[2] = axis
\* The value an axis event sets: 0 inside the deadband, else sign * value.
Deadbanded(value, inv, sign) == IF InDeadband(value, inv) THEN 0 ELSE sign * value

\* C14: forward_speed and turn_speed stay in [-1, 1]; right after an axis-1
\* event with value v forward_speed is 0 if |v| < wheel_deadband and -v
\* otherwise, right after an axis-0 event turn_speed is 0 or v likewise;
\* forward_speed changes only in an axis-1 event and turn_speed only in an
\* axis-0 event (so each holds the value of its most recent event), and an
\* event on one axis changes none of the values derived from other axes.
C14_AxisAdapter ==
    /\ [](Abs(forward_speed) <= AxisScale /\ Abs(turn_speed) <= AxisScale)
    /\ [](AxisEvent(last_event, 1) =>
             forward_speed = Deadbanded(last_event[3], wheel_deadband_inv, -1))
    /\ [](AxisEvent(last_event, 0) =>
             turn_speed = Deadbanded(last_event[3], wheel_deadband_inv, 1))
    /\ [][/\ forward_speed' # forward_speed =>
                 nevents' = nevents + 1 /\ AxisEvent(last_event', 1)
          /\ turn_speed' # turn_speed =>
                 nevents' = nevents + 1 /\ AxisEvent(last_event', 0)
          /\ \A axis \in Axes :
                 (nevents' = nevents + 1 /\ AxisEvent(last_event', axis)) =>
                     /\ axis # 1 => forward_speed' = forward_speed
                     /\ axis # 0 => turn_speed' = turn_speed
                     /\ axis # 3 => head_speed' = head_speed
                     /\ axis # 2 => lift_speed' = lift_speed]_vars
\* An axis-1 event outside the deadband has set forward_speed to the negated
\* value while the turn speed of an earlier axis-0 event is still in place.
C14_Witness ==
    /\ pc = "events"
    /\ turn_speed # 0
    /\ \E v \in EventValues :
           /\ v > 0
           /\ ~InDeadband(v, wheel_deadband_inv)
           /\ last_event = <<"JOYAXISMOTION", 1, v>>
           /\ forward_speed = -v

\* The event the handler was called with last is an Absolute event of code.
PadAxisEvent(e, code) == e[1] = "Absolute" /\ e[2] = code
\* -state/32768 lies strictly inside (-0.15, 0.15).
StrictlyInside(state) ==
    PadDeadbandDen * Abs(state) < PadDeadbandNum * PadScale

\* C15: self.steering and self.speed stay in [-1, 1]; right after an ABS_RX
\* (ABS_Y) event steering (speed) is -state/32768, and exactly 0 where that
\* lies strictly inside (-0.15, 0.15); steering changes in ABS_RX events
\* only and speed in ABS_Y events only, so key events and events on other
\* axes leave both unchanged and each holds the value of its latest event.
C15_PadAdapter ==
    /\ [](Abs(steering) <= PadScale /\ Abs(speed) <= PadScale)
    /\ [](PadAxisEvent(pad_event, "ABS_RX") =>
             steering = IF StrictlyInside(pad_event[3]) THEN 0
                        ELSE -pad_event[3])
    /\ [](PadAxisEvent(pad_event, "ABS_Y") =>
             speed = IF StrictlyInside(pad_event[3]) THEN 0
                     ELSE -pad_event[3])
    /\ [][/\ steering' # steering => PadAxisEvent(pad_event', "ABS_RX")
          /\ speed' # speed => PadAxisEvent(pad_event', "ABS_Y")
          /\ pad_event'[1] = "Key" =>
                 steering' = steering /\ speed' = speed]_vars
\* A key event has left in place a speed just outside the deadband and a
\* steering at full deflection, both set by earlier axis events.
C15_Witness ==
    /\ pad_event[1] = "Key"
    /\ speed = DeadbandEdge + 1
    /\ steering = PadScale

\* The positions in log of the calls enable_procedural_face(on).
FaceCalls(log, on) ==
    {i \in 1..Len(log) :
        log[i][1] = "enable_procedural_face" /\ log[i][2] = on}

\* C16: with a robot, right after a JOYBUTTONDOWN of button 0..3 expression
\* is that button; the flag is -1 from the start of a playback to the end of
\* the iteration; an iteration starts at most one playback; a playback
\* starts only with the flag set and resets it in the same step; and the
\* flag is set by nothing but a button event, so that one press is played
\* in one iteration only.
C16_SingleShotExpression ==
    /\ []((last_event[1] = "JOYBUTTONDOWN" /\ last_event[2] < 4) =>
             expression = last_event[2])
    /\ []((run_cozmo /\ pc \in {"playing", "drive", "tick", "loop"}) =>
             expression = -1)
    /\ [](Cardinality(FaceCalls(calls, FALSE)) <= 1)
    /\ []((run_cozmo /\ pc \in {"drive", "tick"}) =>
             Cardinality(FaceCalls(calls, TRUE)) =
                 Cardinality(FaceCalls(calls, FALSE)))
    /\ [][/\ (pc = "expr" /\ expression # -1) => pc' \in {"playing", "finally"}
          /\ (pc # "playing" /\ pc' = "playing") =>
                 /\ run_cozmo /\ pc = "expr" /\ expression \in 0..3
                 /\ expression' = -1
                 /\ FaceCalls(calls', FALSE) = FaceCalls(calls, FALSE) \cup {Len(calls')}
          /\ (expression' # expression /\ expression' # -1) =>
                 last_event' = <<"JOYBUTTONDOWN", expression'>>]_vars
\* An iteration has played the expression of a button press and reset the flag.
C16_Witness ==
    /\ run_cozmo
    /\ pc = "tick"
    /\ expression = -1
    /\ Cardinality(FaceCalls(calls, FALSE)) = 1
    /\ Cardinality(FaceCalls(calls, TRUE)) = 1

\* No call but display_image stands between an enable_procedural_face(False)
\* and the enable_procedural_face(True) that follows it in the log.
OnlyImagesDuringPlayback(log) ==
    \A i \in FaceCalls(log, FALSE) : \A j \in (i + 1)..Len(log) :
        (\A k \in (i + 1)..(j - 1) : k \notin FaceCalls(log, TRUE)) =>
            log[j][1] \in {"display_image", "enable_procedural_face"}

\* C17 (as claimed): while an expression is played no input event is
\* processed and no move_head, move_lift or drive_wheels is issued between
\* enable_procedural_face(False) and enable_procedural_face(True); and
\* enable_procedural_face(True) follows every enable_procedural_face(False)
\* within the same iteration: once the playback is left, each False call of
\* the iteration has its True call.
C17_PlaybackPausesAndEnds ==
    /\ [][pc = "playing" =>
              UNCHANGED <<inputVars, done, expression, make_sound, nevents,
                          last_event>>]_vars
    /\ [](OnlyImagesDuringPlayback(calls))
    /\ [](pc # "playing" =>
             Cardinality(FaceCalls(calls, TRUE)) =
                 Cardinality(FaceCalls(calls, FALSE)))

\* The log ends with the calls of the given names, in that order.
EndsWith(log, names) ==
    /\ Len(log) >= Len(names)
    /\ \A i \in 1..Len(names) :
           log[Len(log) - Len(names) + i][1] = names[i]

\* C18 (as claimed): a QUIT event or a JOYBUTTONDOWN of button 7 sets done,
\* and done is never cleared; the frame goes on (events, then its
\* drive_wheels), after it no further iteration starts, and with a robot
\* the loop is left with that frame's drive_wheels as the last call and
\* main is left with stop_all_motors, disconnect, stop as the last client
\* calls, in that order, after the final drive_wheels.
C18_Shutdown ==
    /\ [](last_event \in {<<"QUIT">>, <<"JOYBUTTONDOWN", 7>>} => done)
    /\ [][done => done']_vars
    /\ [][(done /\ pc = "loop") => pc' # "events"]_vars
    /\ []((run_cozmo /\ pc = "cleanup") => EndsWith(calls, <<"drive_wheels">>))
    /\ []((run_cozmo /\ done /\ pc = "left") =>
             EndsWith(calls, <<"drive_wheels", "stop_all_motors",
                               "disconnect", "stop">>))

\* C19: run without a robot, main never creates a client and never calls a
\* client method, in the set-up, in any iteration and at shutdown: cli stays
\* None, no connection exists and the call log stays empty; and the events
\* still take effect: right after an event the speed or the flag it sets
\* has the value the event gives it.
C19_NoClientWithoutRobot ==
    (~run_cozmo /\ pc # "idle") =>
        /\ cli = None
        /\ ~connected
        /\ calls = <<>>
        /\ pc \notin {"expr", "playing", "drive", "disconnect", "stop"}
        /\ last_event = <<"QUIT">> => done
        /\ \A b \in Buttons : last_event = <<"JOYBUTTONDOWN", b>> =>
               /\ b < 4 => expression = b
               /\ b \in {4, 5} => make_sound
               /\ b = 7 => done
        /\ AxisEvent(last_event, 1) =>
               forward_speed = Deadbanded(last_event[3], wheel_deadband_inv, -1)
        /\ AxisEvent(last_event, 0) =>
               turn_speed = Deadbanded(last_event[3], wheel_deadband_inv, 1)
        /\ AxisEvent(last_event, 3) =>
               head_speed =
                   Deadbanded(last_event[3], head_deadband_inv, -max_head_speed)
        /\ AxisEvent(last_event, 2) =>
               lift_speed =
                   Deadbanded(last_event[3], lift_deadband_inv, -max_lift_speed)
\* A run without a robot has handled a stick event and a face button, was
\* shut down by the user and has left main without a client.
C19_Witness ==
    /\ ~run_cozmo
    /\ pc = "left"
    /\ ~raised
    /\ done
    /\ forward_speed # 0
    /\ expression \in 0..3
    /\ cli = None
    /\ calls = <<>>

\* C20: a call stop_all(cli, state) with state true calls
\* cli.stop_all_motors() and sets LIN_VELOCITY and ANG_VELOCITY to 0; with
\* state false it issues no command and leaves both unchanged; in both
\* cases HEAD_TILT, LIFT_HEIGHT and HEAD_LIGHT are unchanged.
C20_StopAllFrame ==
    [][(kpc = "stop_all" /\ kpc' = "stopped") =>
          /\ in_state =>
                 /\ kcalls' = Append(kcalls, <<"stop_all_motors">>)
                 /\ LIN_VELOCITY' = 0
                 /\ ANG_VELOCITY' = <<0, 0>>
          /\ ~in_state => UNCHANGED <<kcalls, LIN_VELOCITY, ANG_VELOCITY>>
          /\ UNCHANGED <<HEAD_TILT, LIFT_HEIGHT, HEAD_LIGHT>>]_vars
\* stop_all(cli, True) has returned from a set point with the head up, the
\* lift up and the light on: the motors were stopped, the velocities are 0.
C20_Witness ==
    /\ kpc = "stopped"
    /\ in_state
    /\ kcalls = << <<"stop_all_motors">> >>
    /\ LIN_VELOCITY = 0
    /\ ANG_VELOCITY = <<0, 0>>
    /\ HEAD_TILT = MAX_HEAD_ANGLE
    /\ LIFT_HEIGHT = MAX_LIFT_HEIGHT
    /\ HEAD_LIGHT

\* C21 (as claimed): while the keyboard loop runs, a report of the robot
\* that it has been picked up or is about to fall off a cliff stops all
\* motors and resets the linear and the angular velocity to 0.
C21_StopOnPickUpOrCliff ==
    [][(robot_event' # robot_event /\ robot_event'[2]) =>
          /\ kcalls' = Append(kcalls, <<"stop_all_motors">>)
          /\ LIN_VELOCITY' = 0
          /\ ANG_VELOCITY' = <<0, 0>>]_vars

\* The names of the commands a step adds to the log of the iteration.
Issued ==
    IF kcalls' = kcalls THEN {}
    ELSE IF Len(kcalls') = Len(kcalls) + 1 /\ SubSeq(kcalls', 1, Len(kcalls)) = kcalls
    THEN {kcalls'[Len(kcalls')][1]}
    ELSE {"several"}
\* The step in which the loop acts on the key it has read.
KeyHandled == kpc = "act" /\ kpc' # "act" /\ kraised' = kraised

\* C22: in the keyboard loop drive_wheels is issued in an iteration if and
\* only if the key is w, s, a or d; k and j change only HEAD_TILT and issue
\* only set_head_angle; n and m change only LIFT_HEIGHT and issue only
\* set_lift_height; l toggles only HEAD_LIGHT and issues only
\* set_head_light; q leaves the loop without a command; any other key, or
\* no key, changes no set point and issues no command.
C22_KeyFrame ==
    /\ [](kpc = "end" =>
             /\ Len(kcalls) = 1
             /\ HasCall(kcalls, "drive_wheels") <=> key \in {"w", "s", "a", "d"})
    /\ [](kpc \in {"loop", "act"} => kcalls = <<>>)
    /\ [][KeyHandled =>
             /\ key \in {"w", "s", "a", "d"} =>
                    /\ Issued = {"drive_wheels"}
                    /\ UNCHANGED <<HEAD_TILT, LIFT_HEIGHT, HEAD_LIGHT>>
             /\ key \notin {"w", "s", "a", "d"} => "drive_wheels" \notin Issued
             /\ key \in {"k", "j"} =>
                    /\ Issued = {"set_head_angle"}
                    /\ UNCHANGED <<LIN_VELOCITY, ANG_VELOCITY, LIFT_HEIGHT,
                                   HEAD_LIGHT>>
             /\ key \in {"n", "m"} =>
                    /\ Issued = {"set_lift_height"}
                    /\ UNCHANGED <<LIN_VELOCITY, ANG_VELOCITY, HEAD_TILT,
                                   HEAD_LIGHT>>
             /\ key = "l" =>
                    /\ Issued = {"set_head_light"}
                    /\ HEAD_LIGHT' = ~HEAD_LIGHT
                    /\ UNCHANGED <<LIN_VELOCITY, ANG_VELOCITY, HEAD_TILT,
                                   LIFT_HEIGHT>>
             /\ key = "q" =>
                    Issued = {} /\ kpc' = "finally" /\ UNCHANGED setVars
             /\ key \notin {"w", "s", "a", "d", "k", "j", "n", "m", "l", "q"} =>
                    Issued = {} /\ kpc' = "loop" /\ UNCHANGED setVars]_vars
\* The key k has moved the head by one step and sent set_head_angle only,
\* with the robot driving at a velocity that the step has left alone.
C22_Witness ==
    /\ kpc = "end"
    /\ key = "k"
    /\ kcalls = << <<"set_head_angle", HEAD_TILT>> >>
    /\ HEAD_TILT = HEAD_TILT_0 + HEAD_INC
    /\ LIN_VELOCITY = MAX_WHEEL_SPEED

\* The positions in log of the calls of the given name.
CallsOf(log, name) == {i \in 1..Len(log) : log[i][1] = name}
\* The arguments of the _drive_wheels call that follows _get_motor_thrust.
ThrustDriven(log) ==
    LET i == CHOOSE j \in CallsOf(log, "_get_motor_thrust") : TRUE
    IN  <<log[i + 1][2], log[i + 1][3]>>

\* C23: the throttle that _handle_input passes to _get_motor_thrust is
\* never negative: it is |speed|, with theta = -steering * 90 for a forward
\* and -steering * 90 + 180 for a reverse speed; for every throttle t and
\* angle theta, _get_motor_thrust(t, theta + 180) is the negated pair of
\* _get_motor_thrust(t, theta); and an event that negates the speed at
\* unchanged steering negates both thrusts passed to _drive_wheels.
C23_ReverseSymmetry ==
    /\ [](\A i \in CallsOf(pcalls, "_get_motor_thrust") :
             /\ pcalls[i][2] >= 0
             /\ pcalls[i][2] = Abs(speed)
             /\ pcalls[i][3] =
                    IF speed < 0 THEN -steering + 2 * PadScale ELSE -steering
             /\ pcalls[i + 1][1] = "_drive_wheels")
    /\ [](thrust # None =>
             _get_motor_thrust(in_r, in_theta + 180 * AngleScale) =
                 <<-thrust[1], -thrust[2]>>)
    /\ [][(/\ CallsOf(pcalls, "_get_motor_thrust") # {}
           /\ CallsOf(pcalls', "_get_motor_thrust") # {}
           /\ steering' = steering
           /\ speed' = -speed) =>
              ThrustDriven(pcalls') =
                  <<-ThrustDriven(pcalls)[1], -ThrustDriven(pcalls)[2]>>]_vars
\* The handler has turned a reverse speed with the stick to one side into a
\* positive throttle at theta + 180, and both wheels are driven backwards.
C23_Witness ==
    /\ pad_event = <<"Absolute", "ABS_Y", DeadbandEdge + 1>>
    /\ speed = -(DeadbandEdge + 1)
    /\ steering = DeadbandEdge + 1
    /\ pcalls[1] = <<"_get_motor_thrust", DeadbandEdge + 1,
                     2 * PadScale - (DeadbandEdge + 1)>>
    /\ pcalls[2][2] < 0
    /\ pcalls[2][3] < 0

====
